---- MODULE Spec2Model ----
(***************************************************************************)
(* The kiosk of src/app.py: the session dictionary `state`, the camera     *)
(* globals, the Flask handlers start/scan/stop/reset served by worker      *)
(* threads (app.run(threaded=True)) and the camera_loop daemon threads;    *)
(* and the CameraManager of src/ai/camera_manager.py, driven by threads    *)
(* that call its methods in any order.                                     *)
(* A step of a thread is the code it runs from one blocking call to the    *)
(* next (time.sleep, opening or reading the device, the HTTP call to the   *)
(* cloud, the inference, taking camera_lock): these are the points where   *)
(* the interpreter hands the processor to another thread.  On top of that, *)
(* `state[counter] += 1` is a read and a write in two steps, as the        *)
(* interpreter may switch threads between the two.                         *)
(***************************************************************************)
EXTENDS Integers, FiniteSets, Sequences, TLC

\* ------------------------------------------------------------------ bounds
MaxRequests == 3     \* requests the workers serve in one run
MaxOpens    == 2     \* capture devices opened in one run
MaxReadFail == 1     \* reads that fail on an open device in one run

Workers == {"w1", "w2"}          \* Flask worker threads
Loops   == {"l1", "l2"}          \* slots for camera_loop daemon threads
Threads == Workers \cup Loops

\* --------------------------------------------------------------- constants
None == 0                        \* Python None (no capture, no frame, no id)
BIN_HEIGHT_CM == 30
BIN_FULL_THRESHOLD == 80
SoundFactor == 17150             \* distance = duration * 17150
TicksPerSec == 100000            \* timestamps are in ticks of 10 microseconds
EchoTimeout == 10000             \* timeout = time.time() + 0.1, in ticks
ANGLE_IDLE == 60
ANGLE_PLASTIC == 95
ANGLE_CAN == 25
ANGLE_SLAP_REST == 65
ANGLE_SLAP_HIT == 160

Max(a, b) == IF a >= b THEN a ELSE b
Min(a, b) == IF a <= b THEN a ELSE b

\* get_bin_level without valid_dist = max(0, min(distance, self.BIN_HEIGHT_CM))
get_bin_level_NoClamp(pulse_start, pulse_end) ==
    LET duration == pulse_end - pulse_start
        distance == duration * SoundFactor
        height   == BIN_HEIGHT_CM * TicksPerSec
        fill     == height - distance
    IN  IF pulse_start > EchoTimeout \/ pulse_end > EchoTimeout
        THEN [percent |-> 0, is_full |-> FALSE, error |-> TRUE]
        ELSE [percent |-> fill \div (height \div 100),
              is_full |-> fill >= BIN_FULL_THRESHOLD * (height \div 100),
              error   |-> FALSE]

\* HardwareManager.get_bin_level for an echo whose edges are seen at
\* pulse_start and pulse_end, in ticks since the trigger pulse; distance and
\* percent are kept as exact fractions over TicksPerSec.  An edge later than
\* the timeout gives the default reading with error set (the key is absent
\* from the other readings).
get_bin_level(pulse_start, pulse_end) ==
    LET duration   == pulse_end - pulse_start
        distance   == duration * SoundFactor
        height     == BIN_HEIGHT_CM * TicksPerSec
        valid_dist == Max(0, Min(distance, height))
        fill       == height - valid_dist
    IN  IF pulse_start > EchoTimeout \/ pulse_end > EchoTimeout
        THEN [percent |-> 0, is_full |-> FALSE, error |-> TRUE]
        ELSE [percent |-> (fill * 100) \div height,
              is_full |-> fill * 100 >= BIN_FULL_THRESHOLD * height,
              error   |-> FALSE]

\* echoes <<pulse_start, pulse_end>> the bin sensor can answer with: the
\* longest one that reads full and the shortest one that does not
Echoes == { <<0, 34>>, <<0, 35>> }
FullEchoes  == {e \in Echoes : get_bin_level(e[1], e[2]).is_full}
OtherEchoes == Echoes \ FullEchoes

\* predict_image: p is output_data[0][0] in percent
Scores == {0, 49, 50, 100}
predict_image(p) == IF p >= 50 THEN "Plastic" ELSE "Can"

VARIABLES
    state,            \* the session dictionary of app.py
    global_cap,       \* the capture handle (its generation number) or None
    latest_frame,     \* the frame slot: the generation that read it, or None
    camera_running,
    opened,           \* capture handles that are open (not released)
    pc,               \* each thread's position
    req,              \* the handler a thread runs
    loc,              \* each thread's local variables
    obs,              \* of a handler: the status it began in, what its
                      \* start_camera saw, its response and the reason
    next_cap,         \* handles created so far
    next_txn,         \* transaction ids the cloud issued so far
    fails,            \* failed reads so far
    nreq,             \* requests served so far
    bin_echo,         \* the echo the bin sensor answers with
    variant,          \* which program runs: "app" is app.py, its camera
                      \* globals and handlers; "manager" is a CameraManager
                      \* whose methods the worker threads call
    cm,               \* the CameraManager's cap, latest_frame and running, and
                      \* whether its interpreter is loaded (not None)
    now,              \* the clock of the HardwareManager's caller, in ticks
    echo,             \* <<rise, fall>>: when the ECHO pin goes high and low
    probe,            \* a call of get_bin_level: position, locals, reading
    motor,            \* a call of run_motor_sequence, self.kit and the servos
    wanted,           \* a start has started the camera and no stop or reset
                      \* has stopped it since
    completed,        \* scans that returned success since the last start
    frames_read       \* frames that successful reads of a camera loop produced

camera  == <<global_cap, latest_frame, camera_running, opened>>
threads == <<pc, req, loc, obs>>
world   == <<next_cap, next_txn, fails, nreq, bin_echo>>
history == <<completed, frames_read>>
manager == <<variant, cm>>
hardware == <<now, echo, probe, motor>>
program == <<state, camera, threads, world, history, manager, wanted>>
vars == <<state, camera, threads, world, history, manager, hardware, wanted>>

LocInit == [cap |-> None, frame |-> None, label |-> "", tmp |-> 0, data |-> None,
            camera |-> ""]
ObsInit == [began |-> "", result |-> "", camera |-> "", why |-> "", frame |-> None]

\* the process after import: the handlers of `serving` are the worker threads
InitWith(serving, echoes) ==
    /\ state = [status |-> "IDLE", transaction_id |-> None, claim_secret |-> None,
                plastic |-> 0, cans |-> 0, last_item |-> "Ready"]
    /\ global_cap = None
    /\ latest_frame = None
    /\ camera_running = FALSE
    /\ opened = {}
    /\ pc = [t \in Threads |-> IF t \in serving THEN "idle" ELSE "none"]
    /\ req = [t \in Threads |-> "none"]
    /\ loc = [t \in Threads |-> LocInit]
    /\ obs = [t \in Threads |-> ObsInit]
    /\ next_cap = 0
    /\ next_txn = 0
    /\ fails = 0
    /\ nreq = 0
    /\ bin_echo \in echoes
    /\ completed = 0
    /\ frames_read = {}
    /\ variant \in {"app", "manager"}
    /\ \E loaded \in (IF variant = "app" THEN {FALSE} ELSE BOOLEAN) :
          cm = [cap |-> None, latest_frame |-> None, running |-> FALSE,
                interpreter |-> loaded]
    /\ wanted = FALSE

\* the readings get_bin_level returns without a measurement: on a timeout,
\* and from its except clause (a dictionary without the key "error")
TimeoutReading   == [percent |-> 0, is_full |-> FALSE, error |-> TRUE]
ExceptionReading == [percent |-> 0, is_full |-> FALSE, error |-> FALSE]

ProbeIdle == [pc |-> "idle", pulse_start |-> 0, pulse_end |-> 0, timeout |-> 0,
              reading |-> ExceptionReading, how |-> "none"]

\* a HardwareManager after setup_drivers, with self.kit set (kit) or None, the
\* servos released by reset_motors
HardwareWith(kit) ==
    /\ now = 0
    /\ echo = <<0, 0>>
    /\ probe = ProbeIdle
    /\ motor = [pc |-> "idle", label |-> "", kit |-> kit, sorter |-> None,
                slapper |-> None, log |-> <<>>, returned |-> FALSE]

\* app.py creates no HardwareManager
Init == InitWith(Workers, OtherEchoes) /\ HardwareWith(FALSE)

\* ----------------------------------------------------------------- helpers
Goto(t, p) == pc' = [pc EXCEPT ![t] = p]

\* the handler of worker t has its response r (for the reason why)
Respond(t, r, why) ==
    /\ pc' = [pc EXCEPT ![t] = "reply"]
    /\ loc' = [loc EXCEPT ![t] = LocInit]
    /\ obs' = [obs EXCEPT ![t].result = r, ![t].why = why, ![t].camera = loc[t].camera]
    /\ req' = req

\* worker thread t takes the next request r and runs the handler's first
\* statements, up to p; res is its response if it has one by then
Begin(t, r, p, res) ==
    /\ variant = "app"
    /\ t \in Workers
    /\ pc[t] = "idle"
    /\ nreq < MaxRequests
    /\ nreq' = nreq + 1
    /\ req' = [req EXCEPT ![t] = r]
    /\ pc' = [pc EXCEPT ![t] = p]
    /\ obs' = [obs EXCEPT ![t].began = state.status, ![t].result = res]
    /\ UNCHANGED <<next_cap, next_txn, fails, bin_echo, manager, hardware>>

\* the response is sent; the worker thread is free again
Reply(t) ==
    /\ pc[t] = "reply"
    /\ pc' = [pc EXCEPT ![t] = "idle"]
    /\ req' = [req EXCEPT ![t] = "none"]
    /\ obs' = [obs EXCEPT ![t] = ObsInit]
    /\ UNCHANGED <<state, camera, loc, world, history, manager, hardware, wanted>>

\* ------------------------------------------------- start_camera (app.py:97)
\* where start_camera returns to: start() goes on to the cloud call, the
\* camera_loop (restart_camera, then time.sleep(1)) to its while test
AfterStartCamera(t) == IF req[t] = "start" THEN "st_post" ELSE "lp_read"

\* start_camera returns having seen `what`; its callers do not look at it
StartCameraReturns(t, what) ==
    /\ loc' = [loc EXCEPT ![t].camera = IF req[t] = "start" THEN what ELSE ""]
    /\ UNCHANGED <<req, obs>>

\* restart_camera, after time.sleep(1): start_camera():
\* if camera_running: return; otherwise go and open a device
StartCameraIf(t) ==
    /\ pc[t] = "stac_if"
    /\ IF camera_running
       THEN Goto(t, AfterStartCamera(t)) /\ StartCameraReturns(t, "running")
       ELSE Goto(t, "stac_open") /\ UNCHANGED <<req, loc, obs>>
    /\ UNCHANGED <<state, camera, world, history>>
    /\ UNCHANGED <<manager, hardware, wanted>>

FreeLoops == {l \in Loops : pc[l] = "none"}

\* for index in [0, 1, 2]: cap = cv2.VideoCapture(index, ...); with the first
\* index that opens and reads: global_cap = cap; camera_running = True;
\* threading.Thread(target=camera_loop, daemon=True).start(); return.
\* With none: print("No USB camera detected")
StartCameraOpen(t) ==
    /\ pc[t] = "stac_open"
    /\ \/ /\ next_cap < MaxOpens
          /\ FreeLoops # {}
          /\ next_cap' = next_cap + 1
          /\ opened' = opened \cup {next_cap + 1}
          /\ global_cap' = next_cap + 1
          /\ camera_running' = TRUE
          /\ LET l == CHOOSE x \in FreeLoops : TRUE
             IN  /\ pc' = [pc EXCEPT ![l] = "lp_read", ![t] = AfterStartCamera(t)]
                 /\ req' = [req EXCEPT ![l] = "loop"]
          /\ loc' = [loc EXCEPT ![t].camera = IF req[t] = "start" THEN "opened" ELSE ""]
          /\ obs' = obs
          /\ wanted' = (wanted \/ req[t] = "start")
       \/ /\ Goto(t, AfterStartCamera(t))
          /\ StartCameraReturns(t, "nocam")
          /\ UNCHANGED <<next_cap, opened, global_cap, camera_running, wanted>>
    /\ UNCHANGED <<state, latest_frame, next_txn, fails, nreq, bin_echo, history>>
    /\ UNCHANGED <<manager, hardware>>

\* -------------------------------------------------- stop_camera (app.py:125)
\* where stop_camera returns to
AfterStopCamera(t) ==
    CASE req[t] = "stop"  -> "sp_post"
      [] req[t] = "reset" -> "reply"      \* return jsonify({"success": True})
      [] OTHER            -> "stac_if"     \* restart_camera: sleep(1); start_camera()

\* after time.sleep(0.2): if global_cap: global_cap.release(); global_cap = None
StopCameraRelease(t) ==
    /\ pc[t] = "stc_release"
    /\ opened' = IF global_cap # None THEN opened \ {global_cap} ELSE opened
    /\ global_cap' = None
    /\ IF req[t] = "reset"
       THEN Respond(t, "success", "")
       ELSE Goto(t, AfterStopCamera(t)) /\ UNCHANGED <<req, loc, obs>>
    /\ UNCHANGED <<state, latest_frame, camera_running, world, history>>
    /\ UNCHANGED <<manager, hardware, wanted>>

\* ------------------------------------------------- camera_loop (app.py:77)
\* a camera_loop thread ends: its while condition is false
LoopEnds(t) ==
    /\ pc' = [pc EXCEPT ![t] = "none"]
    /\ req' = [req EXCEPT ![t] = "none"]
    /\ loc' = [loc EXCEPT ![t] = LocInit]

\* camera_loop without its `if ret:` test: the buffer of a failed read is stored too
LoopRead_NoRetTest(t) ==
    /\ pc[t] = "lp_read"
    /\ \/ /\ ~camera_running
          /\ LoopEnds(t)
          /\ UNCHANGED <<latest_frame, fails, frames_read>>
       \/ /\ camera_running
          /\ global_cap = None \/ global_cap \notin opened
          /\ UNCHANGED <<pc, req, loc, latest_frame, fails, frames_read>>
       \/ /\ camera_running
          /\ global_cap # None /\ global_cap \in opened
          /\ frames_read' = frames_read \cup {global_cap}
          /\ latest_frame' = global_cap
          /\ UNCHANGED <<pc, req, loc, fails>>
       \/ /\ camera_running
          /\ global_cap # None /\ global_cap \in opened
          /\ fails < MaxReadFail
          /\ fails' = fails + 1
          /\ latest_frame' = global_cap
          /\ UNCHANGED <<pc, req, loc, frames_read>>
    /\ UNCHANGED <<state, global_cap, camera_running, opened, obs, next_cap, next_txn,
                   nreq, bin_echo, completed>>
    /\ UNCHANGED <<manager, hardware, wanted>>

\* while camera_running: if global_cap is None or not global_cap.isOpened():
\* time.sleep(0.5); continue.  Otherwise ret, frame = global_cap.read();
\* if ret: with camera_lock: latest_frame = frame; otherwise restart_camera(),
\* whose stop_camera() starts with camera_running = False; time.sleep(0.2)
LoopRead(t) ==
    /\ pc[t] = "lp_read"
    /\ \/ /\ ~camera_running
          /\ LoopEnds(t)
          /\ UNCHANGED <<latest_frame, camera_running, fails, frames_read>>
       \/ /\ camera_running
          /\ global_cap = None \/ global_cap \notin opened
          /\ UNCHANGED <<pc, req, loc, latest_frame, camera_running, fails, frames_read>>
       \/ /\ camera_running                    \* ret is True
          /\ global_cap # None /\ global_cap \in opened
          /\ frames_read' = frames_read \cup {global_cap}
          /\ latest_frame' = global_cap
          /\ UNCHANGED <<pc, req, loc, camera_running, fails>>
       \/ /\ camera_running                    \* the device stalls: ret is False
          /\ global_cap # None /\ global_cap \in opened
          /\ fails < MaxReadFail
          /\ fails' = fails + 1
          /\ camera_running' = FALSE
          /\ Goto(t, "stc_release")
          /\ UNCHANGED <<req, loc, latest_frame, frames_read>>
    /\ UNCHANGED <<state, global_cap, opened, obs, next_cap, next_txn, nreq, bin_echo,
                   completed>>
    /\ UNCHANGED <<manager, hardware, wanted>>

\* ------------------------------------------------------ start (app.py:200)
\* state["plastic"] = 0; state["cans"] = 0; state["last_item"] = "Ready";
\* then start_camera(), which returns at once if camera_running and goes to
\* open a device otherwise.  start() does not call get_bin_level.
Start(t) ==
    /\ Begin(t, "start", IF camera_running THEN "st_post" ELSE "stac_open", "")
    /\ state' = [state EXCEPT !.plastic = 0, !.cans = 0, !.last_item = "Ready"]
    /\ loc' = [loc EXCEPT ![t].camera = IF camera_running THEN "running" ELSE ""]
    /\ completed' = 0
    /\ wanted' = (wanted \/ camera_running)
    /\ UNCHANGED <<camera, frames_read>>

\* res = requests.post(CLOUD_URL, ..., timeout=5); data = res.json();
\* if data.get("success"): state["status"] = "RUNNING"; the transaction id and
\* the claim secret are taken from data; return jsonify({"success": True}).
\* An exception is caught and answered "Failed", and so is a response without
\* success.
StartPost(t) ==
    /\ pc[t] = "st_post"
    /\ \/ /\ next_txn' = next_txn + 1
          /\ state' = [state EXCEPT !.status = "RUNNING",
                                    !.transaction_id = next_txn + 1,
                                    !.claim_secret = next_txn + 1]
          /\ Respond(t, "success", "")
       \/ /\ \E why \in {"cloud error", "cloud refused"} : Respond(t, "Failed", why)
          /\ UNCHANGED <<next_txn, state>>
    /\ UNCHANGED <<camera, next_cap, fails, nreq, bin_echo, history>>
    /\ UNCHANGED <<manager, hardware, wanted>>

\* ------------------------------------------------------- scan (app.py:227)
\* capture_frame: with camera_lock: None if latest_frame is None, else a copy
capture_frame == latest_frame

\* the step of Scan that took frame f from the slot
ScanTook(t, f) ==
    /\ IF f = None
       THEN Begin(t, "scan", "reply", "No frame")
       ELSE Begin(t, "scan", "sc_predict", "")
    /\ loc' = [loc EXCEPT ![t].frame = f]
    /\ UNCHANGED <<state, camera, history, wanted>>

\* scan without its test of state["status"]
Scan_NoStatusTest(t) == ScanTook(t, capture_frame)

\* scan without its `if frame is None` test
Scan_NoNoneTest(t) ==
    IF state.status # "RUNNING"
    THEN /\ Begin(t, "scan", "reply", "IDLE")
         /\ UNCHANGED <<state, camera, loc, history, wanted>>
    ELSE /\ Begin(t, "scan", "sc_predict", "")
         /\ loc' = [loc EXCEPT ![t].frame = capture_frame]
         /\ UNCHANGED <<state, camera, history, wanted>>

\* if state["status"] != "RUNNING": return jsonify({"error": "IDLE"});
\* frame = capture_frame(); if frame is None: return jsonify({"error": "No frame"})
Scan(t) ==
    IF state.status # "RUNNING"
    THEN /\ Begin(t, "scan", "reply", "IDLE")
         /\ UNCHANGED <<state, camera, loc, history, wanted>>
    ELSE ScanTook(t, capture_frame)

Counter(label) == IF label = "Plastic" THEN "plastic" ELSE "cans"

\* label = predict_image(frame); state["last_item"] = label; and the read of
\* state[counter] += 1.  An exception of predict_image (resize, set_tensor, the
\* interpreter) is caught and answered with its text.
ScanPredict(t) ==
    /\ pc[t] = "sc_predict"
    /\ \/ \E p \in Scores :
             LET label == predict_image(p)
             IN  /\ state' = [state EXCEPT !.last_item = label]
                 /\ loc' = [loc EXCEPT ![t].label = label, ![t].frame = None,
                                       ![t].tmp = state[Counter(label)]]
                 /\ Goto(t, "sc_write")
                 /\ UNCHANGED <<req, obs>>
       \/ Respond(t, "SCAN ERROR", "") /\ state' = state
    /\ UNCHANGED <<camera, world, history>>
    /\ UNCHANGED <<manager, hardware, wanted>>

\* state[counter] += 1, its write; return jsonify({"success": True, ...})
ScanWrite(t) ==
    /\ pc[t] = "sc_write"
    /\ state' = [state EXCEPT ![Counter(loc[t].label)] = loc[t].tmp + 1]
    /\ Respond(t, "success", "")
    /\ completed' = completed + 1
    /\ UNCHANGED <<camera, world, frames_read>>
    /\ UNCHANGED <<manager, hardware, wanted>>

\* ------------------------------------------------------- stop (app.py:251)
\* if state["status"] != "RUNNING": return jsonify({"error": "IDLE"});
\* stop_camera(): camera_running = False; time.sleep(0.2)
Stop(t) ==
    /\ IF state.status = "RUNNING"
       THEN Begin(t, "stop", "stc_release", "")
       ELSE Begin(t, "stop", "reply", "IDLE")
    /\ camera_running' = IF state.status = "RUNNING" THEN FALSE ELSE camera_running
    /\ wanted' = IF state.status = "RUNNING" THEN FALSE ELSE wanted
    /\ UNCHANGED <<state, global_cap, latest_frame, opened, loc, history>>

\* requests.post(CLOUD_URL, json={"action": "STOP", ...}); generate_qr(link);
\* state["status"] = "SHOW_RESULT"; return jsonify({"success": True}).
\* An exception is caught and answered "Failed".
StopPost(t) ==
    /\ pc[t] = "sp_post"
    /\ \/ /\ state' = [state EXCEPT !.status = "SHOW_RESULT"]
          /\ Respond(t, "success", "")
       \/ /\ Respond(t, "Failed", "cloud error")
          /\ state' = state
    /\ UNCHANGED <<camera, world, history>>
    /\ UNCHANGED <<manager, hardware, wanted>>

\* ------------------------------------------------------ reset (app.py:280)
\* state["status"] = "IDLE"; stop_camera(): camera_running = False;
\* time.sleep(0.2); the handler returns success after the release
Reset(t) ==
    /\ Begin(t, "reset", "stc_release", "")
    /\ state' = [state EXCEPT !.status = "IDLE"]
    /\ camera_running' = FALSE
    /\ wanted' = FALSE
    /\ UNCHANGED <<global_cap, latest_frame, opened, loc, history>>

\* ------------------------------- CameraManager (src/ai/camera_manager.py)
\* worker thread t calls method r of the CameraManager
CMBegin(t, r) ==
    /\ variant = "manager"
    /\ t \in Workers
    /\ pc[t] = "idle"
    /\ nreq < MaxRequests
    /\ nreq' = nreq + 1
    /\ req' = [req EXCEPT ![t] = r]
    /\ UNCHANGED <<state, camera, loc, next_txn, bin_echo, variant, completed, hardware,
                   wanted>>

\* the method of worker t returns r
CMReturn(t, r) ==
    /\ pc' = [pc EXCEPT ![t] = "reply"]
    /\ obs' = [obs EXCEPT ![t].result = r]

\* start_camera: if self.running and self.cap: return True; otherwise go and
\* open a device
CMStartCamera(t) ==
    /\ CMBegin(t, "cm_start_camera")
    /\ IF cm.running /\ cm.cap # None
       THEN CMReturn(t, "True")
       ELSE Goto(t, "cm_open") /\ obs' = obs
    /\ UNCHANGED <<cm, next_cap, opened, fails, frames_read>>

\* for idx in [0, 1, -1]: cap = cv2.VideoCapture(idx, cv2.CAP_V4L2); with the
\* first one that isOpened(): self.cap = cap; self.running = True;
\* threading.Thread(target=self._camera_loop, daemon=True).start(); return True.
\* With none: return False
CMStartCameraOpen(t) ==
    /\ pc[t] = "cm_open"
    /\ \/ /\ next_cap < MaxOpens
          /\ FreeLoops # {}
          /\ next_cap' = next_cap + 1
          /\ cm' = [cm EXCEPT !.cap = next_cap + 1, !.running = TRUE]
          /\ LET l == CHOOSE x \in FreeLoops : TRUE
             IN  /\ pc' = [pc EXCEPT ![l] = "cm_read", ![t] = "reply"]
                 /\ req' = [req EXCEPT ![l] = "cm_loop"]
          /\ obs' = [obs EXCEPT ![t].result = "True"]
       \/ /\ CMReturn(t, "False")
          /\ UNCHANGED <<cm, next_cap, req>>
    /\ UNCHANGED <<state, camera, loc, next_txn, fails, nreq, bin_echo, variant, history,
                   hardware, wanted>>

\* while self.running and self.cap: ret, frame = self.cap.read();
\* if ret: with self.lock: self.latest_frame = frame; else: time.sleep(0.1)
CMCameraLoop(t) ==
    /\ pc[t] = "cm_read"
    /\ IF ~(cm.running /\ cm.cap # None)
       THEN /\ LoopEnds(t)
            /\ UNCHANGED <<cm, fails, frames_read>>
       ELSE \/ /\ frames_read' = frames_read \cup {cm.cap}      \* ret is True
               /\ cm' = [cm EXCEPT !.latest_frame = cm.cap]
               /\ UNCHANGED <<pc, req, loc, fails>>
            \/ /\ fails < MaxReadFail                           \* ret is False
               /\ fails' = fails + 1
               /\ UNCHANGED <<pc, req, loc, cm, frames_read>>
    /\ UNCHANGED <<state, camera, obs, next_cap, next_txn, nreq, bin_echo, variant,
                   completed, hardware, wanted>>

\* capture_frame: with self.lock: a copy of self.latest_frame, or None if it
\* is None
CMCaptureFrame(t) ==
    /\ CMBegin(t, "cm_capture_frame")
    /\ pc' = [pc EXCEPT ![t] = "reply"]
    /\ obs' = [obs EXCEPT ![t].frame = cm.latest_frame,
                          ![t].result = IF cm.latest_frame = None THEN "None" ELSE "frame"]
    /\ UNCHANGED <<cm, next_cap, fails, frames_read>>

\* pred_idx = np.argmax(probs): 0=Can, 1=Other, 2=Plastic
LabelOf(pred_idx) ==
    CASE pred_idx = 0 -> "Can"
      [] pred_idx = 2 -> "Plastic"
      [] OTHER        -> "Other"

\* predict(frame): if not self.interpreter or frame is None: return "Error";
\* otherwise the label of the inference, and "Other" if it raises
CMPredict(t) ==
    /\ CMBegin(t, "cm_predict")
    /\ \E frame \in {None} \cup frames_read :
          IF ~cm.interpreter \/ frame = None
          THEN CMReturn(t, "Error")
          ELSE \/ \E pred_idx \in 0..2 : CMReturn(t, LabelOf(pred_idx))
               \/ CMReturn(t, "Other")
    /\ UNCHANGED <<cm, next_cap, fails, frames_read>>

\* ------------------- HardwareManager (src/hardware/hardware_manager.py)
\* One thread calls the methods of a HardwareManager, one call at a time.
\* instants at which the thread samples the clock and the ECHO pin
Times == {0, 1, 34, 35, 2000, EchoTimeout - 1, EchoTimeout, EchoTimeout + 1,
          EchoTimeout + 2}
Never == 20000                   \* an edge that does not come

\* the echoes the sensor can answer with: <<rise, fall>>
EchoTimes ==
    {e \in {0, 1, EchoTimeout - 1, EchoTimeout + 1, Never}
            \X {34, 35, 2000, EchoTimeout, EchoTimeout + 2, Never} :
        e[1] < e[2] \/ e[1] = Never}

\* GPIO.input(self.BIN_ECHO_PIN) at instant a
EchoPin(a) == IF echo[1] <= a /\ a < echo[2] THEN 1 ELSE 0

\* get_bin_level returns reading r
ProbeReturns(r, how) ==
    probe' = [probe EXCEPT !.pc = "idle", !.reading = r, !.how = how]

\* the trigger pulse; pulse_start = time.time(); pulse_end = time.time();
\* timeout = time.time() + 0.1.  A GPIO call that raises ends in the except
\* clause.
ProbeTrigger ==
    /\ probe.pc = "idle" /\ motor.pc = "idle"
    /\ \/ /\ now' = 0
          /\ echo' \in EchoTimes
          /\ probe' = [pc |-> "wait_rise", pulse_start |-> 0, pulse_end |-> 0,
                       timeout |-> EchoTimeout, reading |-> ExceptionReading,
                       how |-> "none"]
       \/ /\ ProbeReturns(ExceptionReading, "exception")
          /\ UNCHANGED <<now, echo>>
    /\ UNCHANGED <<motor, program>>

\* while GPIO.input(self.BIN_ECHO_PIN) == 0: pulse_start = time.time();
\* if pulse_start > timeout: return {"percent": 0, "is_full": False, "error": True}
ProbeWaitRise ==
    /\ probe.pc = "wait_rise"
    /\ \/ \E a \in Times :
             /\ a >= now /\ EchoPin(a) = 1
             /\ now' = a
             /\ probe' = [probe EXCEPT !.pc = "wait_fall"]
       \/ \E a \in Times :
             /\ a >= now /\ EchoPin(a) = 0
             /\ now' = a
             /\ IF a > probe.timeout
                THEN probe' = [probe EXCEPT !.pc = "idle", !.pulse_start = a,
                                            !.reading = TimeoutReading, !.how = "timeout"]
                ELSE probe' = [probe EXCEPT !.pulse_start = a]
       \/ /\ ProbeReturns(ExceptionReading, "exception")
          /\ now' = now
    /\ UNCHANGED <<echo, motor, program>>

\* while GPIO.input(self.BIN_ECHO_PIN) == 1: pulse_end = time.time();
\* if pulse_end > timeout: return the same; after the loop the distance and
\* the percentage are computed and returned
ProbeWaitFall ==
    /\ probe.pc = "wait_fall"
    /\ \/ \E a \in Times :
             /\ a >= now /\ EchoPin(a) = 0
             /\ now' = a
             /\ ProbeReturns(get_bin_level(probe.pulse_start, probe.pulse_end), "measured")
       \/ \E a \in Times :
             /\ a >= now /\ EchoPin(a) = 1
             /\ now' = a
             /\ IF a > probe.timeout
                THEN probe' = [probe EXCEPT !.pc = "idle", !.pulse_end = a,
                                            !.reading = TimeoutReading, !.how = "timeout"]
                ELSE probe' = [probe EXCEPT !.pulse_end = a]
       \/ /\ ProbeReturns(ExceptionReading, "exception")
          /\ now' = now
    /\ UNCHANGED <<echo, motor, program>>

\* labels run_motor_sequence is called with: those of CameraManager.predict
MotorLabels == {"Plastic", "Can", "Other", "Error"}

\* the servo commands of run_motor_sequence in the order of the code:
\* <<servo, angle>>, None to release
MotorCommands(label) ==
    << <<"sorter", IF label = "Plastic" THEN ANGLE_PLASTIC ELSE ANGLE_CAN>>,
       <<"slapper", ANGLE_SLAP_HIT>>,
       <<"slapper", ANGLE_SLAP_REST>>,
       <<"sorter", ANGLE_IDLE>>,
       <<"sorter", None>>,
       <<"slapper", None>> >>

\* if label == "Other" or not self.kit: return
MotorCall ==
    /\ motor.pc = "idle" /\ probe.pc = "idle"
    /\ \E label \in MotorLabels :
          motor' = [motor EXCEPT !.label = label, !.log = <<>>,
                                 !.returned = (label = "Other" \/ ~motor.kit),
                                 !.pc = IF label = "Other" \/ ~motor.kit
                                        THEN "idle" ELSE "run"]
    /\ UNCHANGED <<now, echo, probe, program>>

\* self.kit.servo[ch].angle = a, the next command of the sequence (each of the
\* first four is followed by a time.sleep); after the last one the method
\* returns.  A command that raises ends in the except clause, which prints.
MotorCommand ==
    /\ motor.pc = "run"
    /\ LET cmd  == MotorCommands(motor.label)[Len(motor.log) + 1]
           last == Len(motor.log) + 1 = Len(MotorCommands(motor.label))
       IN  \/ motor' = [motor EXCEPT ![cmd[1]] = cmd[2],
                                     !.log = Append(motor.log, cmd),
                                     !.pc = IF last THEN "idle" ELSE "run",
                                     !.returned = last]
           \/ motor' = [motor EXCEPT !.pc = "idle", !.returned = TRUE]
    /\ UNCHANGED <<now, echo, probe, program>>

\* ------------------------------------------------------------------- system
Next ==
    \E t \in Threads :
       \/ Start(t) \/ StartPost(t)
       \/ Scan(t) \/ ScanPredict(t) \/ ScanWrite(t)
       \/ Stop(t) \/ StopPost(t)
       \/ Reset(t) \/ Reply(t)
       \/ StartCameraIf(t) \/ StartCameraOpen(t) \/ StopCameraRelease(t)
       \/ LoopRead(t)
       \/ CMStartCamera(t) \/ CMStartCameraOpen(t) \/ CMCameraLoop(t)
       \/ CMCaptureFrame(t) \/ CMPredict(t)

Spec == Init /\ [][Next]_vars

\* the same kiosk in front of a bin whose sensor reads full
InitBinFull == InitWith(Workers, FullEchoes) /\ HardwareWith(FALSE)
SpecBinFull == InitBinFull /\ [][Next]_vars

\* a HardwareManager and the thread that calls its methods
NextHardware ==
    \/ ProbeTrigger \/ ProbeWaitRise \/ ProbeWaitFall
    \/ MotorCall \/ MotorCommand

InitHardware ==
    /\ InitWith({}, OtherEchoes)
    /\ variant = "app"
    /\ \E kit \in BOOLEAN : HardwareWith(kit)

SpecHardware == InitHardware /\ [][NextHardware]_vars


\* ------------------------------------------------------------------ claims
Replied(t, r) == t \in Workers /\ req[t] = r /\ pc[t] = "reply"

\* C1: with a bin that reads full, start is refused: the session stays IDLE
\* with no transaction id, no start answers success, and the camera is not
\* touched.
C1_StartRefusedWhenBinFull ==
    get_bin_level(bin_echo[1], bin_echo[2]).is_full =>
        /\ state.status = "IDLE"
        /\ state.transaction_id = None
        /\ global_cap = None /\ ~camera_running
        /\ \A t \in Workers : Replied(t, "start") => obs[t].result # "success"

\* C2: the counters add up to the number of scans that answered success since
\* the last start.
C2_CountersCountScans == state.plastic + state.cans = completed

InFlight == {t \in Workers : req[t] = "scan" /\ pc[t] \in {"sc_predict", "sc_write"}}

\* C3: at most one scan is between taking its frame and updating the counters.
C3_ScansSerialized == Cardinality(InFlight) <= 1

\* C4: a start whose start_camera opened no device does not answer success
\* (and so does not set RUNNING).
C4_NoCameraStartFails ==
    \A t \in Workers :
        (Replied(t, "start") /\ obs[t].camera = "nocam") => obs[t].result # "success"

\* C5: a start whose call to the cloud raised still answers success.
C5_StartSurvivesCloudFailure ==
    \A t \in Workers :
        (Replied(t, "start") /\ obs[t].why = "cloud error") => obs[t].result = "success"

\* C6: a step of a start that was called while RUNNING, taken while RUNNING,
\* leaves the transaction id alone and, when the camera runs, opens no device
\* and leaves global_cap alone.
C6_SecondStartKeepsSession ==
    [][\A t \in Workers :
          (req[t] = "start" /\ obs[t].began = "RUNNING" /\ pc'[t] # pc[t]
             /\ state.status = "RUNNING")
          => /\ state'.transaction_id = state.transaction_id
             /\ camera_running => (next_cap' = next_cap /\ global_cap' = global_cap)]_vars

\* C7: a scan that finds the frame slot empty answers "No frame" and leaves the
\* session dictionary as it is.
C7_NoFrameScanAborts ==
    [][\A t \in Workers :
          (pc[t] = "idle" /\ req'[t] = "scan" /\ state.status = "RUNNING"
             /\ latest_frame = None)
          => /\ pc'[t] = "reply" /\ obs'[t].result = "No frame"
             /\ state' = state]_vars

C7_Witness ==
    \E t \in Workers : Replied(t, "scan") /\ obs[t].result = "No frame"
                       /\ state.status = "RUNNING"

\* C8: a scan received while the status is not RUNNING answers "IDLE" and
\* leaves the session dictionary as it is; and a counter changes only in a
\* step of a start or of a scan that began in RUNNING.
C8_ScanOnlyWhileRunning ==
    [][/\ \A t \in Workers :
             (pc[t] = "idle" /\ req'[t] = "scan" /\ state.status # "RUNNING")
             => /\ pc'[t] = "reply" /\ obs'[t].result = "IDLE"
                /\ state' = state
       /\ (state'.plastic # state.plastic \/ state'.cans # state.cans)
             => \E t \in Workers :
                   /\ pc'[t] # pc[t]
                   /\ \/ req'[t] = "start"
                      \/ req[t] = "scan" /\ obs[t].began = "RUNNING"]_vars

C8_Witness ==
    \E t \in Workers : Replied(t, "scan") /\ obs[t].result = "IDLE"
                       /\ state.plastic + state.cans > 0

C10_SnapshotOnlyReadFrames ==
    /\ frames_read = {} => (capture_frame = None /\ cm.latest_frame = None)
    /\ capture_frame # None => capture_frame \in frames_read
    /\ cm.latest_frame # None => cm.latest_frame \in frames_read
    /\ \A t \in Workers :
          /\ loc[t].frame # None => loc[t].frame \in frames_read
          /\ obs[t].frame # None => obs[t].frame \in frames_read

C10_Witness ==
    /\ \E t \in Workers : req[t] = "scan" /\ pc[t] = "sc_predict" /\ loc[t].frame # None
    /\ fails > 0

\* the spec's SensorFusionEngine: the ordered rule table of fuse
Labels == {"Plastic", "Can", "Other"}
WeightLimit == 50
Weights == {0, WeightLimit, WeightLimit + 1}

fuse(weight_before, metal_detected, raw_label, weight_limit) ==
    IF weight_before > weight_limit THEN "Other"
    ELSE IF raw_label = "Can" /\ ~metal_detected THEN "Other"
    ELSE IF raw_label = "Plastic" /\ metal_detected THEN "Can"
    ELSE IF raw_label = "Other" /\ metal_detected THEN "Can"
    ELSE raw_label

\* C14: the label a scan records (and counts) is the fusion of the weight on
\* the scale, the metal sensor and the label of the classifier, whatever the
\* two sensors read.
C14_RecordedLabelIsFused ==
    \A t \in Workers :
        (req[t] = "scan" /\ pc[t] = "sc_write") =>
            \A weight_before \in Weights, metal_detected \in BOOLEAN :
                loc[t].label = fuse(weight_before, metal_detected, loc[t].label, WeightLimit)

\* C15: a classification gives Plastic, Can or Other, and a scan that came to
\* classify its frame is counted: it answers success.
C15_ClassificationIsTotal ==
    \A t \in Workers :
        /\ Replied(t, "cm_predict") => obs[t].result \in Labels
        /\ (req[t] = "scan" /\ pc[t] = "sc_write") => loc[t].label \in Labels
        /\ (Replied(t, "scan") /\ obs[t].result \notin {"IDLE", "No frame"})
              => obs[t].result = "success"

\* the camera loop threads that are at their read
Reading == {l \in Loops : pc[l] \in {"lp_read", "cm_read"}}

\* C18: as long as the camera that a start started has not been stopped by a
\* stop or a reset, a camera loop is alive, whatever reads have failed; and
\* so is one of a CameraManager that is running.
C18_FailedReadKeepsLoop ==
    /\ wanted => \E l \in Loops : pc[l] # "none"
    /\ cm.running => \E l \in Loops : pc[l] = "cm_read"

\* C19: at most one camera loop reads the device and writes the frame slot.
C19_OneLoop ==
    /\ camera_running => Cardinality(Reading) <= 1
    /\ cm.running => Cardinality(Reading) <= 1

\* C20: when no handler is running and the status is IDLE or SHOW_RESULT, the
\* camera is stopped: camera_running is false and the device is released.
C20_IdleMeansCameraStopped ==
    ((\A t \in Workers : pc[t] = "idle") /\ variant = "app"
        /\ state.status \in {"IDLE", "SHOW_RESULT"})
    => (~camera_running /\ global_cap = None /\ opened = {})

\* C21: the frame a scan takes from the slot was read from the capture that
\* is open now, the one the most recent start of the camera opened, not from
\* one that has been stopped since.
C21_ScanTakesFreshFrame ==
    [][\A t \in Workers :
          (pc[t] = "idle" /\ req'[t] = "scan" /\ pc'[t] = "sc_predict")
          => (loc'[t].frame = global_cap /\ global_cap \in opened)]_vars

\* ------------------------------------------------- claims on the hardware
\* get_bin_level has returned
ProbeReturned == probe.pc = "idle" /\ probe.how # "none"

\* C11: whatever the timestamps of the two edges, the percent of a reading
\* that get_bin_level returns is an integer from 0 to 100.
C11_PercentInRange == ProbeReturned => probe.reading.percent \in 0..100

\* a measurement whose fall timestamp is not later than its rise timestamp, and
\* one whose distance is beyond the height of the bin
C11_Witness ==
    /\ ProbeReturned /\ probe.how = "measured"
    /\ \/ probe.pulse_end < probe.pulse_start
       \/ (probe.pulse_end - probe.pulse_start) * SoundFactor > BIN_HEIGHT_CM * TicksPerSec

\* C12: when the echo does not rise, or does not fall, before the deadline,
\* the reading returned is {percent: 0, is_full: false, error: true}.
C12_LateEchoReturnsError ==
    (ProbeReturned /\ (echo[1] > EchoTimeout \/ echo[2] > EchoTimeout))
        => probe.reading = TimeoutReading

\* C13: a reading that did not complete a measurement has percent 0, is_full
\* false and error true.
C13_FailedReadingHasError ==
    (ProbeReturned /\ probe.how # "measured") => probe.reading = TimeoutReading

\* C16: run_motor_sequence issues no servo command when the label is Other or
\* self.kit is None, and issues commands for the labels Plastic and Can only.
C16_OnlySortedLabelsActuate ==
    /\ (motor.label = "Other" \/ ~motor.kit) => motor.log = <<>>
    /\ motor.log # <<>> => motor.label \in {"Plastic", "Can"}

\* C17: the commands come in the order sorter to target, slapper to hit,
\* slapper to rest, sorter to idle, release of both; and when
\* run_motor_sequence has returned, both servos are released.
C17_SequenceEndsReleased ==
    /\ \A i \in 1..Len(motor.log) : motor.log[i] = MotorCommands(motor.label)[i]
    /\ motor.returned => (motor.sorter = None /\ motor.slapper = None)

====
